---- MODULE Spec2Model ----
(***************************************************************************)
(* Model of the firespine backbone: the node stack, the disjoint contexts  *)
(* (ctx.rs), the event wrapper (event.rs) and the three-phase event        *)
(* dispatch with recursive sub-event re-dispatch (ctx.rs).                 *)
(*                                                                         *)
(* Stack positions are 0-based as in the source; a slice of the node stack *)
(* is the half-open range [lo, hi) of the positions it borrows.            *)
(***************************************************************************)
EXTENDS Integers, Sequences, FiniteSets, TLC

VARIABLES
    nodes,    \* Backbone.nodes: the names of the stack entries, root first
    ctx,      \* the OuterNodeContext the caller holds (NoCtx: none yet)
    frames,   \* the active process_event_wrapper calls, outermost first
    log,      \* every handle_event invocation so far, in order
    events,   \* the sub-events that were re-dispatched, in order of creation
    made,     \* the contexts the last step constructed
    call,     \* the last context constructor called, its argument and outcome
    np,       \* the last next_phase call: wrapper phase before, argument, result
    pc,       \* "idle", "running", "done" or "panicked"
    thunks,   \* Backbone.thunks: the queue of navigation thunks, front first
    serial,   \* how many thunks navigate has enqueued so far
    navs,     \* how many times navigate has been called
    last,     \* the last call on the backbone and what it did
    comps,    \* the component types every stack entry registers, root first
    found,    \* the last component lookup and its result
    subpath,  \* navigate's `subpath`: the text its loop has still to parse
    budget,   \* what the handlers of this run may do, see Moves
    policy    \* how the handlers of this run choose what to do, see Allowed

vars == <<nodes, ctx, frames, log, events, made, call, np, pc,
          thunks, serial, navs, last, comps, found, subpath, budget, policy>>

\* The state of navigation and of the component registries, which the
\* context constructors and the event dispatch leave alone.
navvars == <<thunks, serial, navs>>
runvars == <<subpath, budget, policy>>
compvars == <<comps, found>>

\* ---------------------------------------------------------------- bounds
MaxDepth == 4
MaxMoves == 2
MaxNavigates == 2
MaxCompDepth == 3
MaxPathLen == 4

\* ---------------------------------------------------------------- event.rs
Creation == 1
Falling == 2
Acting == 3
Rising == 4

new(event) ==
    [event |-> event, phase |-> Creation,
     can_fall |-> TRUE, can_eval |-> TRUE, can_rise |-> TRUE]

prevent_action(w) == [w EXCEPT !.can_eval = FALSE]

stop_falling(w) == [w EXCEPT !.can_fall = FALSE]

stop_rising(w) == [w EXCEPT !.can_rise = FALSE]

stop(w) == [w EXCEPT !.can_fall = FALSE, !.can_eval = FALSE, !.can_rise = FALSE]

can_phase_swapped(w, phase) ==
    CASE phase = Creation -> FALSE
      [] phase = Falling /\ ~w.can_rise -> FALSE
      [] phase = Acting /\ ~w.can_eval -> FALSE
      [] phase = Rising /\ ~w.can_fall -> FALSE
      [] OTHER -> TRUE

can_ignoring_fall(w, phase) ==
    CASE phase = Creation -> FALSE
      [] phase = Acting /\ ~w.can_eval -> FALSE
      [] phase = Rising /\ ~w.can_rise -> FALSE
      [] OTHER -> TRUE

can(w, phase) ==
    CASE phase = Creation -> FALSE
      [] phase = Falling /\ ~w.can_fall -> FALSE
      [] phase = Acting /\ ~w.can_eval -> FALSE
      [] phase = Rising /\ ~w.can_rise -> FALSE
      [] OTHER -> TRUE

next_phase_always(w, phase) ==
    [w |-> [w EXCEPT !.phase = phase], ret |-> TRUE]

\* The wrapper after the call, and the value the call returns.
next_phase(w, phase) ==
    IF phase > w.phase
    THEN [w |-> [w EXCEPT !.phase = phase], ret |-> TRUE]
    ELSE [w |-> w, ret |-> FALSE]

\* ---------------------------------------------------------------- node.rs
\* What a handler may do with the wrapper it is handed: nothing, or one of
\* the four cancelling calls.
HandlerActs == {"none", "stop_falling", "prevent_action", "stop_rising", "stop"}

ApplyAct(w, act) ==
    CASE act = "stop_falling" -> stop_falling(w)
      [] act = "prevent_action" -> prevent_action(w)
      [] act = "stop_rising" -> stop_rising(w)
      [] act = "stop" -> stop(w)
      [] OTHER -> w

\* ---------------------------------------------------------------- ctx.rs
\* Names are strings of characters; "/" is the root's name.
RootName == <<"/">>

get_child_name(name, child) ==
    LET pname == IF name = RootName THEN <<>> ELSE name
    IN  pname \o <<"/">> \o child

NoCtx == [tag |-> "NoCtx"]
SomeCtx(c) == [tag |-> "Some", ctx |-> c]
NoneRes == [tag |-> "None"]
PanicRes == [tag |-> "Panic"]

SliceLen(s) == s.hi - s.lo

\* slice::split_at_mut: the two halves <<[lo, lo+at), [lo+at, hi)>>
split_at_mut(s, at) ==
    <<[lo |-> s.lo, hi |-> s.lo + at], [lo |-> s.lo + at, hi |-> s.hi]>>

\* name of the stack entry at a 0-based position
NameAt(p) == nodes[p + 1]

get_root_context ==
    IF Len(nodes) = 0 THEN NoneRes
    ELSE SomeCtx([name |-> NameAt(0), cons |-> [lo |-> 0, hi |-> 0], current |-> 0])

get_context_root_as_current ==
    IF Len(nodes) = 0 THEN NoneRes
    ELSE SomeCtx([name |-> NameAt(0), cons |-> [lo |-> 0, hi |-> 0], current |-> 0])

get_context ==
    IF Len(nodes) = 0 THEN NoneRes
    ELSE SomeCtx([name |-> NameAt(Len(nodes) - 1),
                  cons |-> [lo |-> 0, hi |-> Len(nodes) - 1],
                  current |-> Len(nodes) - 1])

\* Backbone::get_subcontext_before; end[0] panics on an empty `end`
Backbone_get_subcontext_before(at) ==
    IF at > Len(nodes) THEN NoneRes
    ELSE LET halves == split_at_mut([lo |-> 0, hi |-> Len(nodes)], at)
             start == halves[1]
             end == halves[2]
         IN  IF SliceLen(end) = 0 THEN PanicRes
             ELSE SomeCtx([name |-> NameAt(end.lo), cons |-> start, current |-> end.lo])

get_subcontext_before(c, at) ==
    IF at > SliceLen(c.cons) THEN NoneRes
    ELSE LET halves == split_at_mut(c.cons, at)
             start == halves[1]
             end == halves[2]
         IN  IF SliceLen(end) = 0 THEN PanicRes
             ELSE SomeCtx([name |-> NameAt(end.lo), cons |-> start, current |-> end.lo])

get_subcontext_after_first_as_current(c, at) ==
    IF at > SliceLen(c.cons) THEN NoneRes
    ELSE LET end == split_at_mut(c.cons, at)[2]
         IN  IF SliceLen(end) = 0 THEN PanicRes
             ELSE SomeCtx([name |-> NameAt(end.lo), cons |-> end, current |-> end.lo])

get_subcontext_after(c, at) ==
    IF at > SliceLen(c.cons) THEN NoneRes
    ELSE LET end == split_at_mut(c.cons, at)[2]
         IN  IF SliceLen(end) = 0 THEN PanicRes
             ELSE SomeCtx([name |-> NameAt(end.lo), cons |-> end, current |-> c.current])

\* The walkers of process_event_wrapper over an ancestor slice of length n.
falling_walker(n) == [i \in 1..n |-> [some |-> TRUE, idx |-> i - 1, phase |-> Falling]]

acting_walker == <<[some |-> FALSE, idx |-> 0, phase |-> Acting]>>

rising_walker_forward(n) == [i \in 1..n |-> [some |-> TRUE, idx |-> i - 1, phase |-> Rising]]

rising_walker(n) == [i \in 1..n |-> [some |-> TRUE, idx |-> n - i, phase |-> Rising]]

walker(n) == falling_walker(n) \o acting_walker \o rising_walker(n)


\* `..wrapper`: the wrapper handed to a sub-event's dispatch takes phase and
\* flags from the wrapper of the dispatch that produced it.
sub_wrapper(w, event) ==
    [event |-> event, phase |-> w.phase,
     can_fall |-> w.can_fall, can_eval |-> w.can_eval, can_rise |-> w.can_rise]

sub_event_at_same_index(item) ==
    IF item.some THEN [some |-> TRUE, at |-> item.idx] ELSE [some |-> FALSE, at |-> 0]

sub_event_at_also_acting(item) ==
    IF item.some THEN [some |-> TRUE, at |-> item.idx + 1] ELSE [some |-> TRUE, at |-> 0]

\* Where a returned sub-event is re-dispatched: get_subcontext_after(idx + 1)
\* for a step that has an index, nowhere for the Acting step.
sub_event_at(item) ==
    IF item.some THEN [some |-> TRUE, at |-> item.idx + 1] ELSE [some |-> FALSE, at |-> 0]

callee_deferred(fs) == 1

\* The call in the loop body is synchronous: of the active calls the one made
\* last is the one whose loop runs.
callee(fs) == Len(fs)

\* ---------------------------------------------------------------- components
CompTypes == {"C", "D"}

NoComp == [some |-> FALSE, type |-> "none", owner |-> -1]
SomeComp(type, owner) == [some |-> TRUE, type |-> type, owner |-> owner]

\* NodeHandler::get_comp of the entry at position p: its registry is keyed by
\* the type of the component it holds.
get_comp(p, type_id) ==
    IF type_id \in comps[p + 1] THEN SomeComp(type_id, p) ELSE NoComp

\* downcast_ref::<C>: the component itself if it is a C, else nothing
downcast_ref(c, C) == IF c.some /\ c.type = C THEN c ELSE NoComp

first_in_order(ps) == CHOOSE p \in ps : \A q \in ps : p <= q

\* `.iter().rev()`: of the positions that answer, the one the scan meets first
first_in_rev(ps) == CHOOSE p \in ps : \A q \in ps : q <= p

get_cons_component(cons, C) ==
    LET answering == {p \in cons.lo..(cons.hi - 1) : get_comp(p, C).some}
    IN  IF answering = {} THEN NoComp
        ELSE downcast_ref(get_comp(first_in_rev(answering), C), C)

get_component(c, C) ==
    LET own == downcast_ref(get_comp(c.current, C), C)
    IN  IF own.some THEN own ELSE get_cons_component(c.cons, C)

Backbone_get_component(C) ==
    LET answering == {p \in 0..(Len(nodes) - 1) : get_comp(p, C).some}
    IN  IF answering = {} THEN NoComp ELSE get_comp(first_in_rev(answering), C)

NoFound == [op |-> "none", type |-> "none", ctx |-> NoCtx, res |-> NoComp]

\* ---------------------------------------------------------------- thunk.rs
QueueLimit == 16

\* A thunk.  `name` is ToNode's segment or Waiting's child name; `rx` is the
\* state of Waiting's channel: "pending" (nothing sent, the producer is
\* alive), "node" (a node was sent, named `node`), "error" (an error was
\* sent) or "canceled" (the producer is gone).  `id` and `was` are not in the
\* source: they are the thunk's place in the order navigate enqueued thunks
\* and the kind navigate enqueued it as, and a thunk re-inserted by
\* process_thunks keeps those of the thunk it stands for.
Thunk(k, name, rx, node, cause) ==
    [k |-> k, name |-> name, rx |-> rx, node |-> node, cause |-> cause,
     id |-> 0, was |-> k]

ToRoot == Thunk("ToRoot", <<>>, "none", <<>>, "none")
ToParent == Thunk("ToParent", <<>>, "none", <<>>, "none")
ToSelf == Thunk("ToSelf", <<>>, "none", <<>>, "none")
ToNode(nn) == Thunk("ToNode", nn, "none", <<>>, "none")
Waiting(nid, rx, node) == Thunk("Waiting", nid, rx, node, "none")
Error(cause) == Thunk("Error", <<>>, "none", <<>>, cause)
End == Thunk("End", <<>>, "none", <<>>, "none")

Whitespace == {" "}

RECURSIVE trim_start(_)
trim_start(s) ==
    IF s # <<>> /\ Head(s) \in Whitespace THEN trim_start(Tail(s)) ELSE s

RECURSIVE trim_end(_)
trim_end(s) ==
    IF s # <<>> /\ s[Len(s)] \in Whitespace
    THEN trim_end(SubSeq(s, 1, Len(s) - 1)) ELSE s

trim(s) == trim_end(trim_start(s))

strip_prefix(s, prefix) ==
    IF Len(s) >= Len(prefix) /\ SubSeq(s, 1, Len(prefix)) = prefix
    THEN [some |-> TRUE, rest |-> SubSeq(s, Len(prefix) + 1, Len(s))]
    ELSE [some |-> FALSE, rest |-> <<>>]

trim_start_matches_nothing(s, c) == s

RECURSIVE trim_start_matches(_, _)
trim_start_matches(s, c) ==
    IF s # <<>> /\ Head(s) = c THEN trim_start_matches(Tail(s), c) ELSE s

split_once(s, c) ==
    LET hits == {i \in 1..Len(s) : s[i] = c}
    IN  IF hits = {} THEN [some |-> FALSE, current |-> <<>>, next |-> <<>>]
        ELSE LET i == CHOOSE h \in hits : \A g \in hits : h <= g
             IN  [some |-> TRUE, current |-> SubSeq(s, 1, i - 1),
                  next |-> SubSeq(s, i + 1, Len(s))]

\* Thunk::parse: a thunk and the remaining path, or nothing
parse(path) ==
    LET p == trim(path)
        root == strip_prefix(p, <<"/">>)
        parent == strip_prefix(p, <<".", ".">>)
        self == strip_prefix(p, <<".">>)
        split == split_once(p, "/")
    IN  IF p = <<>> THEN [some |-> FALSE, thunk |-> End, rest |-> <<>>]
        ELSE IF root.some
        THEN [some |-> TRUE, thunk |-> ToRoot, rest |-> trim_start_matches(root.rest, "/")]
        ELSE IF parent.some
        THEN [some |-> TRUE, thunk |-> ToParent, rest |-> trim_start_matches(parent.rest, "/")]
        ELSE IF self.some
        THEN [some |-> TRUE, thunk |-> ToSelf, rest |-> trim_start_matches(self.rest, "/")]
        ELSE IF split.some
        THEN [some |-> TRUE, thunk |-> ToNode(split.current), rest |-> split.next]
        ELSE [some |-> TRUE, thunk |-> ToNode(p), rest |-> <<>>]

\* navigate's loop: the thunks parse yields until the path is used up
RECURSIVE parse_all(_)
parse_all(path) ==
    LET r == parse(path)
    IN  IF r.some THEN <<r.thunk>> \o parse_all(r.rest) ELSE <<>>

\* path_as_string: the names of the stack entries with '/' between them
RECURSIVE path_as_string(_)
path_as_string(ns) ==
    IF ns = <<>> THEN <<>>
    ELSE IF Len(ns) = 1 THEN ns[1]
    ELSE path_as_string(SubSeq(ns, 1, Len(ns) - 1)) \o <<"/">> \o ns[Len(ns)]

push_back(q, ts) == q \o ts

push_front_at_back(q, ts) == q \o ts

\* VecDeque::push_front of the thunk process_thunks re-inserts, if any
push_front(q, ts) == ts \o q

\* The last call: which thunk update took (kind, id, was), what update
\* returned (ret, cause), the handler it asked for a child (asked), whether it
\* polled a request (polled), by how much the stack depth changed (moved),
\* and whether an update has returned an error since the last navigate call
\* (fatal); for navigate, the path it was called with (arg).  When navigate
\* has queued thunks on an empty queue, n is how many; ticks counts the
\* updates that have taken a thunk since, and extra those of them that took
\* a thunk process_thunks had re-inserted.  n is 0 when there is no such
\* navigate call, or a request was polled before it was resolved.
NoLast == [op |-> "none", kind |-> "none", ret |-> "none", cause |-> "none",
           asked |-> -1, polled |-> 0, id |-> 0, was |-> "none",
           moved |-> 0, fatal |-> FALSE, arg |-> <<>>,
           n |-> 0, ticks |-> 0, extra |-> 0]

\* ---------------------------------------------------------------- state
Letters == <<"a", "b", "c", "d", "e", "f", "g", "h">>

\* The node stack after descending d - 1 times from the root: every child is
\* pushed under the name get_child_name gave it.
RECURSIVE Stack(_)
Stack(d) ==
    IF d = 1 THEN <<RootName>>
    ELSE LET below == Stack(d - 1)
         IN  Append(below, get_child_name(below[d - 1], <<Letters[((d - 2) % 8) + 1]>>))

NoCall == [op |-> "none", at |-> 0, len |-> 0, res |-> "None"]
NoNextPhase == [called |-> FALSE, before |-> Creation, arg |-> Creation,
                after |-> Creation, ret |-> FALSE]

Cancels == Cardinality({i \in 1..Len(log) : log[i].act # "none"})
SubEvents == Cardinality({i \in 1..Len(log) : log[i].sub})

\* What one handler invocation takes from the budget of MaxMoves.
Cost(act, sub) == (IF act # "none" THEN 1 ELSE 0) + (IF sub THEN 1 ELSE 0)

\* update is inside process_thunks, dispatching the completion event.
InUpdate == last.op = "update" /\ last.ret = "running"

\* The budget of the run: how many cancelling calls and sub-events its
\* handlers make between them.  It is 0 in a navigation run: the nodes that
\* navigation pushes keep NodeHandler's default handle_event, which cancels
\* nothing and returns no sub-event.
Moves == budget

\* What the handler invoked for the walker item `item` of a dispatch over
\* `len` ancestors may do.  Handlers are arbitrary code: under "any" each
\* invocation chooses freely within the budget; under "always" every handler
\* returns a sub-event from every visit; under "while_window" every handler
\* returns one from every Falling and Rising visit that leaves ancestors
\* below it.  The last two cancel nothing.
Policies == {"any", "always", "while_window"}

Allowed(act, sub, item, len) ==
    CASE policy = "any" -> Cancels + SubEvents + Cost(act, sub) <= Moves
      [] policy = "always" -> act = "none" /\ sub
      [] OTHER -> act = "none" /\ sub = (item.some /\ item.idx + 1 < len)

Init ==
    /\ nodes \in {Stack(d) : d \in 1..MaxDepth}
    /\ ctx = NoCtx
    /\ frames = <<>>
    /\ log = <<>>
    /\ events = <<>>
    /\ made = {}
    /\ call = NoCall
    /\ np = NoNextPhase
    /\ pc = "idle"
    /\ thunks = <<>>
    /\ serial = 0
    /\ navs = 0
    /\ last = NoLast
    /\ comps = [p \in 1..Len(nodes) |-> {}]
    /\ found = NoFound
    /\ subpath = <<>>
    /\ budget = MaxMoves
    /\ policy = "any"

\* The caller obtains a context: res is what the constructor returned.  The
\* constructor borrows the backbone or the context mutably, which ends the
\* borrow of a component looked up before.
Obtain(op, at, len, res) ==
    /\ call' = [op |-> op, at |-> at, len |-> len, res |-> res.tag]
    /\ made' = IF res.tag = "Some" THEN {res.ctx} ELSE {}
    /\ ctx' = IF res.tag = "Some" THEN res ELSE ctx
    /\ pc' = IF res.tag = "Panic" THEN "panicked" ELSE pc
    /\ found' = NoFound
    /\ UNCHANGED <<nodes, frames, log, events, np, navvars, runvars, last, comps>>

GetRootContext ==
    /\ pc = "idle"
    /\ Obtain("get_root_context", 0, Len(nodes), get_root_context)

GetContext ==
    /\ pc = "idle"
    /\ Obtain("get_context", 0, Len(nodes), get_context)

BackboneGetSubcontextBefore ==
    /\ pc = "idle"
    /\ \E at \in 0..(Len(nodes) + 1) :
          Obtain("Backbone_get_subcontext_before", at, Len(nodes),
                 Backbone_get_subcontext_before(at))

GetSubcontextBefore ==
    /\ pc = "idle"
    /\ ctx.tag = "Some"
    /\ \E at \in 0..(SliceLen(ctx.ctx.cons) + 1) :
          Obtain("get_subcontext_before", at, SliceLen(ctx.ctx.cons),
                 get_subcontext_before(ctx.ctx, at))

GetSubcontextAfter ==
    /\ pc = "idle"
    /\ ctx.tag = "Some"
    /\ \E at \in 0..(SliceLen(ctx.ctx.cons) + 1) :
          Obtain("get_subcontext_after", at, SliceLen(ctx.ctx.cons),
                 get_subcontext_after(ctx.ctx, at))

\* process_event: wraps the event (event 0) and enters process_event_wrapper;
\* the calls that are active on entry.
process_event(c) == <<[ctx |-> c, w |-> new(0), pos |-> 0]>>

ProcessEvent ==
    /\ pc = "idle"
    /\ ctx.tag = "Some"
    /\ frames' = process_event(ctx.ctx)
    /\ pc' = "running"
    /\ made' = {}
    /\ UNCHANGED <<nodes, ctx, log, events, call, np, navvars, runvars, last, compvars>>

Running == frames[callee(frames)]
WalkerOf(f) == walker(SliceLen(f.ctx.cons))
AtEnd(f) == f.pos = Len(WalkerOf(f))
Item(f) == WalkerOf(f)[f.pos + 1]

ReplaceRunning(f) == [frames EXCEPT ![callee(frames)] = f]

\* One pass of the loop whose step is not allowed by the wrapper: `continue`.
WalkerSkip ==
    /\ pc = "running"
    /\ ~AtEnd(Running)
    /\ ~can(Running.w, Item(Running).phase)
    /\ frames' = ReplaceRunning([Running EXCEPT !.pos = @ + 1])
    /\ made' = {}
    /\ UNCHANGED <<nodes, ctx, log, events, call, np, pc, navvars, runvars, last, compvars>>

\* One pass of the loop that reaches a handler.  The handler performs `act`
\* on the wrapper and returns a sub-event iff `sub`.
HandleEvent(act, sub) ==
    /\ pc = "running"
    /\ ~AtEnd(Running)
    /\ can(Running.w, Item(Running).phase)
    /\ Allowed(act, sub, Item(Running), SliceLen(Running.ctx.cons))
    /\ LET f == Running
           item == Item(f)
           nx == next_phase(f.w, item.phase)
           sc == IF item.some THEN get_subcontext_before(f.ctx, item.idx) ELSE SomeCtx(f.ctx)
           invoked == sc.tag = "Some"
           w2 == IF invoked THEN ApplyAct(nx.w, act) ELSE nx.w
           entry == [event |-> f.w.event, at |-> sc.ctx.current, phase |-> item.phase,
                     seen |-> nx.w.phase, name |-> sc.ctx.name, cons |-> sc.ctx.cons,
                     act |-> act, sub |-> sub, after |-> w2, step |-> f.pos + 1]
           tgt == sub_event_at(item)
           tried == invoked /\ sub /\ tgt.some
           re == IF tried THEN get_subcontext_after(f.ctx, tgt.at) ELSE NoneRes
           f2 == [f EXCEPT !.pos = @ + 1, !.w = w2]
           id == Len(events) + 1
       IN  /\ invoked \/ (act = "none" /\ ~sub)
           /\ np' = [called |-> TRUE, before |-> f.w.phase, arg |-> item.phase,
                     after |-> nx.w.phase, ret |-> nx.ret]
           /\ log' = IF invoked THEN Append(log, entry) ELSE log
           /\ made' = (IF item.some /\ invoked THEN {sc.ctx} ELSE {})
                        \cup (IF re.tag = "Some" THEN {re.ctx} ELSE {})
           /\ call' = IF tried
                      THEN [op |-> "get_subcontext_after", at |-> tgt.at,
                            len |-> SliceLen(f.ctx.cons), res |-> re.tag]
                      ELSE IF item.some
                      THEN [op |-> "get_subcontext_before", at |-> item.idx,
                            len |-> SliceLen(f.ctx.cons), res |-> sc.tag]
                      ELSE call
           /\ IF re.tag = "Some"
              THEN /\ frames' = Append(ReplaceRunning(f2),
                                       [ctx |-> re.ctx, w |-> sub_wrapper(w2, id), pos |-> 0])
                   /\ events' = Append(events,
                                       [parent |-> f.w.event, src |-> Len(log'),
                                        at |-> sc.ctx.current, phase |-> item.phase,
                                        ctx |-> re.ctx, w |-> sub_wrapper(w2, id)])
              ELSE /\ frames' = ReplaceRunning(f2)
                   /\ events' = events
           /\ pc' = IF sc.tag = "Panic" \/ re.tag = "Panic" THEN "panicked" ELSE pc
    /\ UNCHANGED <<nodes, ctx, navvars, runvars, last, compvars>>

\* The walker is exhausted: process_event_wrapper returns to its caller.
WalkerEnd ==
    /\ pc = "running"
    /\ AtEnd(Running)
    /\ frames' = [i \in 1..(Len(frames) - 1) |->
                    IF i < callee(frames) THEN frames[i] ELSE frames[i + 1]]
    /\ pc' = IF Len(frames) > 1 THEN "running"
             ELSE IF InUpdate THEN "idle" ELSE "done"
    /\ last' = IF Len(frames) = 1 /\ InUpdate THEN [last EXCEPT !.ret = "Ok"] ELSE last
    /\ made' = {}
    /\ UNCHANGED <<nodes, ctx, log, events, call, np, navvars, runvars, compvars>>

Next ==
    \/ GetRootContext
    \/ GetContext
    \/ BackboneGetSubcontextBefore
    \/ GetSubcontextBefore
    \/ GetSubcontextAfter
    \/ ProcessEvent
    \/ WalkerSkip
    \/ \E act \in HandlerActs, sub \in BOOLEAN : HandleEvent(act, sub)
    \/ WalkerEnd

Spec == Init /\ [][Next]_vars

\* One dispatch from get_context, over every stack depth and every policy
\* of the handlers, that runs on until it returns or panics.  Handlers that
\* choose freely have a budget one below that of Spec; the two other
\* policies return sub-events without any budget.
TermInit ==
    /\ nodes \in {Stack(d) : d \in 1..MaxDepth}
    /\ ctx = NoCtx
    /\ frames = <<>>
    /\ log = <<>>
    /\ events = <<>>
    /\ made = {}
    /\ call = NoCall
    /\ np = NoNextPhase
    /\ pc = "idle"
    /\ thunks = <<>>
    /\ serial = 0
    /\ navs = 0
    /\ last = NoLast
    /\ comps = [p \in 1..Len(nodes) |-> {}]
    /\ found = NoFound
    /\ subpath = <<>>
    /\ budget = MaxMoves - 1
    /\ policy \in Policies

\* A step of process_event_wrapper
DispatchStep ==
    \/ WalkerSkip
    \/ \E act \in HandlerActs, sub \in BOOLEAN : HandleEvent(act, sub)
    \/ WalkerEnd

TermNext ==
    \/ GetContext
    \/ ProcessEvent
    \/ DispatchStep

TermSpec == TermInit /\ [][TermNext]_vars /\ WF_vars(DispatchStep)

\* ---------------------------------------------------------------- lookups
\* The stacks whose entries register any set of component types.
CompInit ==
    /\ nodes \in {Stack(d) : d \in 1..MaxCompDepth}
    /\ comps \in [1..Len(nodes) -> SUBSET CompTypes]
    /\ ctx = NoCtx
    /\ frames = <<>>
    /\ log = <<>>
    /\ events = <<>>
    /\ made = {}
    /\ call = NoCall
    /\ np = NoNextPhase
    /\ pc = "idle"
    /\ thunks = <<>>
    /\ serial = 0
    /\ navs = 0
    /\ last = NoLast
    /\ found = NoFound
    /\ subpath = <<>>
    /\ budget = MaxMoves
    /\ policy = "any"

\* OuterNodeContext::get_component::<C> on the context the caller holds
GetComponent ==
    /\ pc = "idle"
    /\ ctx.tag = "Some"
    /\ \E C \in CompTypes :
          found' = [op |-> "get_component", type |-> C, ctx |-> ctx,
                    res |-> get_component(ctx.ctx, C)]
    /\ UNCHANGED <<nodes, ctx, frames, log, events, made, call, np, pc,
                   navvars, runvars, last, comps>>

\* Backbone::get_component::<C>
BackboneGetComponent ==
    /\ pc = "idle"
    /\ \E C \in CompTypes :
          found' = [op |-> "Backbone_get_component", type |-> C, ctx |-> NoCtx,
                    res |-> Backbone_get_component(C)]
    /\ UNCHANGED <<nodes, ctx, frames, log, events, made, call, np, pc,
                   navvars, runvars, last, comps>>

CompNext ==
    \/ GetRootContext
    \/ GetContext
    \/ BackboneGetSubcontextBefore
    \/ GetSubcontextBefore
    \/ GetSubcontextAfter
    \/ GetComponent
    \/ BackboneGetComponent

CompSpec == CompInit /\ [][CompNext]_vars

\* ---------------------------------------------------------------- navigation
Child == <<"c", "h", "i", "l", "d">>
Grand == <<"g", "r", "a", "n", "d">>

\* "./././." with n dots
RECURSIVE Dots(_)
Dots(n) == IF n = 1 THEN <<".">> ELSE <<".", "/">> \o Dots(n - 1)

\* "/child/grand", "/", "..", "./grand" and a path of as many "." as the
\* queue limit, which queues one thunk more than the limit
Paths ==
    { <<"/">> \o Child \o <<"/">> \o Grand,
      <<"/">>,
      <<".", ".">>,
      <<".", "/">> \o Grand,
      Dots(QueueLimit) }

\* Backbone::from_box: the root alone on the stack, nothing queued
NavInit ==
    /\ nodes = <<RootName>>
    /\ comps = <<{}>>
    /\ ctx = NoCtx
    /\ frames = <<>>
    /\ log = <<>>
    /\ events = <<>>
    /\ made = {}
    /\ call = NoCall
    /\ np = NoNextPhase
    /\ pc = "idle"
    /\ thunks = <<>>
    /\ serial = 0
    /\ navs = 0
    /\ last = NoLast
    /\ found = NoFound
    /\ subpath = <<>>
    /\ budget = 0
    /\ policy = "any"

\* The i-th of the thunks one navigate call enqueues gets id from + i.
Stamp(ts, from) == [i \in 1..Len(ts) |-> [ts[i] EXCEPT !.id = from + i]]

is_current_never(path) == FALSE

\* `current_path == path`
is_current(path) == path_as_string(nodes) = path

queue_full_at_limit(q) == Len(q) >= QueueLimit

\* `self.thunks.len() > 16`
queue_full(q) == Len(q) > QueueLimit

Navigate(path) ==
    /\ pc = "idle"
    /\ navs < MaxNavigates
    /\ LET ignored == is_current(path) \/ queue_full(thunks)
           queued == push_back(parse_all(path), <<End>>)
       IN  /\ thunks' = IF ignored THEN thunks
                        ELSE push_back(thunks, Stamp(queued, serial))
           /\ serial' = IF ignored THEN serial ELSE serial + Len(queued)
           /\ last' = [NoLast EXCEPT
                         !.op = "navigate", !.arg = path,
                         !.kind = IF ignored THEN "ignored" ELSE "queued",
                         !.n = IF ignored \/ thunks # <<>> THEN 0 ELSE Len(queued)]
    /\ navs' = navs + 1
    /\ UNCHANGED <<nodes, ctx, frames, log, events, made, call, np, pc, compvars,
                   runvars>>

\* The text after the last '/' of a name.
last_segment(name) ==
    LET hits == {i \in 1..Len(name) : name[i] = "/"}
    IN  IF hits = {} THEN name
        ELSE SubSeq(name, (CHOOSE h \in hits : \A g \in hits : g <= h) + 1, Len(name))

\* The names a producer may give the node it was asked for: the name
\* handle_node_request was handed, or only its last segment.
NodeNames(nid) == {nid, last_segment(nid)}

\* The producer of the pending request answers, or goes away.
Resolve ==
    /\ pc = "idle"
    /\ thunks # <<>>
    /\ Head(thunks).k = "Waiting"
    /\ Head(thunks).rx = "pending"
    /\ \E out \in {"node", "error", "canceled"}, nm \in NodeNames(Head(thunks).name) :
          thunks' = <<[Head(thunks) EXCEPT !.rx = out,
                                           !.node = IF out = "node" THEN nm ELSE <<>>]>>
                      \o Tail(thunks)
    /\ last' = [NoLast EXCEPT !.op = "resolve", !.fatal = last.fatal, !.n = last.n,
                              !.ticks = last.ticks, !.extra = last.extra]
    /\ UNCHANGED <<nodes, ctx, frames, log, events, made, call, np, pc,
                   serial, navs, compvars, runvars>>

\* What one arm of process_thunks does: the thunk to re-insert (none or
\* one), the stack, what update returns, the stack position of the handler
\* that was asked for a child (-1: none), whether a request was polled,
\* whether the completion event is dispatched, whether `unwrap` panicked.
Done ==
    [pthunk |-> <<>>, nodes |-> nodes, ret |-> "Ok", cause |-> "none",
     asked |-> -1, polled |-> 0, event |-> FALSE, panic |-> FALSE]

end_arm ==
    IF get_context.tag = "Some" THEN [Done EXCEPT !.event = TRUE, !.ret = "running"]
    ELSE [Done EXCEPT !.panic = TRUE, !.ret = "none"]

error_arm(t) == [Done EXCEPT !.ret = "Err", !.cause = t.cause]

waiting_arm_keeps_waiting(t) ==
    CASE t.rx = "node" -> [Done EXCEPT !.nodes = Append(nodes, t.node), !.polled = 1]
      [] t.rx = "error" -> [Done EXCEPT !.pthunk = <<Error("failed")>>, !.polled = 1]
      [] OTHER -> [Done EXCEPT !.pthunk = <<t>>, !.polled = 1]

waiting_arm(t) ==
    CASE t.rx = "node" -> [Done EXCEPT !.nodes = Append(nodes, t.node), !.polled = 1]
      [] t.rx = "error" -> [Done EXCEPT !.pthunk = <<Error("failed")>>, !.polled = 1]
      [] t.rx = "pending" -> [Done EXCEPT !.pthunk = <<t>>, !.polled = 1]
      [] OTHER -> [Done EXCEPT !.pthunk = <<Error("canceled")>>, !.polled = 1]

to_node_arm_asks_root(t, accept) ==
    LET c == get_root_context.ctx
        child_name == get_child_name(c.name, t.name)
    IN  [Done EXCEPT !.asked = c.current,
                     !.pthunk = IF accept
                                THEN <<Waiting(child_name, "pending", <<>>)>>
                                ELSE <<Error("refused")>>]

to_node_arm(t, accept) ==
    IF get_context.tag # "Some" THEN [Done EXCEPT !.panic = TRUE, !.ret = "none"]
    ELSE LET c == get_context.ctx
             child_name == get_child_name(c.name, t.name)
         IN  [Done EXCEPT !.asked = c.current,
                          !.pthunk = IF accept
                                     THEN <<Waiting(child_name, "pending", <<>>)>>
                                     ELSE <<Error("refused")>>]

to_parent_arm_pops_root ==
    [Done EXCEPT !.nodes = IF Len(nodes) > 0
                           THEN SubSeq(nodes, 1, Len(nodes) - 1) ELSE nodes]

to_parent_arm ==
    [Done EXCEPT !.nodes = IF Len(nodes) > 1
                           THEN SubSeq(nodes, 1, Len(nodes) - 1) ELSE nodes]

to_root_arm_keeps_popping ==
    [Done EXCEPT !.pthunk = IF Len(nodes) > 1 THEN <<ToParent, ToRoot>> ELSE <<>>]

to_root_arm ==
    [Done EXCEPT !.pthunk = IF Len(nodes) > 1 THEN <<ToParent>> ELSE <<>>]

\* process_thunks on a queue that is not empty; `accept` is whether the
\* handler asked by ToNode takes the request.
process_thunks(accept) ==
    LET t == Head(thunks)
        r == CASE t.k = "End" -> end_arm
               [] t.k = "Error" -> error_arm(t)
               [] t.k = "Waiting" -> waiting_arm(t)
               [] t.k = "ToNode" -> to_node_arm(t, accept)
               [] t.k = "ToSelf" -> Done
               [] t.k = "ToParent" -> to_parent_arm
               [] OTHER -> to_root_arm
        again == r.pthunk
    IN  [r EXCEPT !.pthunk = [i \in 1..Len(again) |->
                                [again[i] EXCEPT !.id = t.id, !.was = t.was]]]

\* Backbone::update
Update ==
    /\ pc = "idle"
    /\ IF thunks = <<>>
       THEN /\ last' = [NoLast EXCEPT !.op = "update", !.kind = "None", !.ret = "Ok",
                                      !.fatal = last.fatal]
            /\ UNCHANGED <<nodes, ctx, frames, log, events, made, call, np, pc,
                           thunks, comps>>
       ELSE \E accept \in BOOLEAN :
            LET r == process_thunks(accept)
                repeat == Head(thunks).k = "Waiting" /\ Head(thunks).rx = "pending"
                counted == last.n > 0 /\ ~repeat
            IN  /\ thunks' = push_front(Tail(thunks), r.pthunk)
                /\ nodes' = r.nodes
                /\ comps' = [p \in 1..Len(r.nodes) |->
                               IF p <= Len(comps) THEN comps[p] ELSE {}]
                /\ last' = [op |-> "update", kind |-> Head(thunks).k, ret |-> r.ret,
                            cause |-> r.cause, asked |-> r.asked, polled |-> r.polled,
                            id |-> Head(thunks).id, was |-> Head(thunks).was,
                            moved |-> Len(r.nodes) - Len(nodes), arg |-> <<>>,
                            fatal |-> last.fatal \/ r.ret = "Err",
                            n |-> IF counted THEN last.n ELSE 0,
                            ticks |-> IF counted THEN last.ticks + 1 ELSE 0,
                            extra |-> IF ~counted THEN 0
                                      ELSE IF Head(thunks).k # Head(thunks).was
                                      THEN last.extra + 1 ELSE last.extra]
                /\ pc' = IF r.panic THEN "panicked"
                         ELSE IF r.event THEN "running" ELSE pc
                /\ IF r.event
                   THEN /\ ctx' = get_context
                        /\ frames' = process_event(get_context.ctx)
                        /\ log' = <<>>
                        /\ events' = <<>>
                        /\ made' = {get_context.ctx}
                        /\ call' = [op |-> "get_context", at |-> 0,
                                    len |-> Len(nodes), res |-> "Some"]
                        /\ np' = NoNextPhase
                   ELSE UNCHANGED <<ctx, frames, log, events, made, call, np>>
    /\ UNCHANGED <<serial, navs, found, runvars>>

NavNext ==
    \/ \E path \in Paths \cup {path_as_string(nodes)} : Navigate(path)
    \/ Resolve
    \/ Update
    \/ \E act \in HandlerActs, sub \in BOOLEAN : HandleEvent(act, sub)
    \/ WalkerEnd

NavSpec == NavInit /\ [][NavNext]_vars

\* The navigation of a backbone whose owner keeps calling update, whose
\* requests are all answered or dropped by their producers in the end, and
\* whose dispatches run on until they return.
NavLive ==
    /\ NavInit
    /\ [][NavNext]_vars
    /\ WF_vars(Update)
    /\ WF_vars(Resolve)
    /\ WF_vars(\E act \in HandlerActs, sub \in BOOLEAN : HandleEvent(act, sub))
    /\ WF_vars(WalkerEnd)

\* ---------------------------------------------------------------- parsing
Chars == {"/", ".", "a", " "}

\* "/a/../b/./c"
Example == <<"/", "a", "/", ".", ".", "/", "b", "/", ".", "/", "c">>

\* The paths navigate is called with: every text of up to MaxPathLen
\* characters, and the example.
PathInputs == (UNION {[1..n -> Chars] : n \in 0..MaxPathLen}) \cup {Example}

\* navigate has been called on a new backbone with a path that passed its two
\* guards, and enters its loop.
ParseInit ==
    /\ nodes = <<RootName>>
    /\ comps = <<{}>>
    /\ ctx = NoCtx
    /\ frames = <<>>
    /\ log = <<>>
    /\ events = <<>>
    /\ made = {}
    /\ call = NoCall
    /\ np = NoNextPhase
    /\ pc = "parsing"
    /\ thunks = <<>>
    /\ serial = 0
    /\ navs = 1
    /\ subpath \in PathInputs \ {path_as_string(nodes)}
    /\ last = [NoLast EXCEPT !.op = "navigate", !.kind = "queued", !.arg = subpath]
    /\ found = NoFound
    /\ budget = 0
    /\ policy = "any"

\* One pass of navigate's loop: parse yields a thunk and the remaining path.
ParseStep ==
    /\ pc = "parsing"
    /\ parse(subpath).some
    /\ thunks' = push_back(thunks, Stamp(<<parse(subpath).thunk>>, serial))
    /\ serial' = serial + 1
    /\ subpath' = parse(subpath).rest
    /\ UNCHANGED <<nodes, ctx, frames, log, events, made, call, np, pc, navs, last,
                   compvars, budget, policy>>

\* parse yields nothing: the loop ends, End is queued and navigate returns.
ParseEnd ==
    /\ pc = "parsing"
    /\ ~parse(subpath).some
    /\ thunks' = push_back(thunks, Stamp(<<End>>, serial))
    /\ serial' = serial + 1
    /\ pc' = "idle"
    /\ UNCHANGED <<nodes, ctx, frames, log, events, made, call, np, navs, last,
                   compvars, runvars>>

ParseNext == ParseStep \/ ParseEnd

ParseSpec == ParseInit /\ [][ParseNext]_vars



\* ---------------------------------------------------------------- helpers
Indices == 1..Len(log)
EventIds == 1..Len(events)

\* The context a dispatch runs in: the caller's for the outer event 0, the
\* re-dispatch context for a sub-event.
CtxOf(e) == IF e = 0 THEN ctx.ctx ELSE events[e].ctx

\* A sub-event, the sub-event whose dispatch produced it, and so on.
RECURSIVE Ancestry(_)
Ancestry(e) == IF e = 0 THEN {} ELSE {e} \cup Ancestry(events[e].parent)

Positions(s) == s.lo..(s.hi - 1)

ClearsFall(i) == log[i].act \in {"stop_falling", "stop"}
ClearsEval(i) == log[i].act \in {"prevent_action", "stop"}
ClearsRise(i) == log[i].act \in {"stop_rising", "stop"}

Visits == [i \in Indices |-> [at |-> log[i].at, phase |-> log[i].phase]]

\* ---------------------------------------------------------------- claims

ExpectedOrder(c) ==
    LET n == SliceLen(c.cons)
    IN  [i \in 1..(2 * n + 1) |->
            IF i <= n THEN [at |-> c.cons.lo + i - 1, phase |-> Falling]
            ELSE IF i = n + 1 THEN [at |-> c.current, phase |-> Acting]
            ELSE [at |-> c.cons.lo + (2 * n + 1 - i), phase |-> Rising]]

\* C1: in a dispatch in which no handler clears a flag or returns a sub-event,
\* the handlers invoked are exactly ancestor 0..n-1 (Falling), the target
\* (Acting), ancestor n-1..0 (Rising), in that order, nothing else.
C1_PhaseOrdering ==
    (pc \in {"running", "done"} /\ Cancels = 0 /\ SubEvents = 0) =>
        /\ Len(log) <= Len(ExpectedOrder(ctx.ctx))
        /\ Visits = SubSeq(ExpectedOrder(ctx.ctx), 1, Len(log))
        /\ pc = "done" => Len(log) = Len(ExpectedOrder(ctx.ctx))

C1_Witness ==
    /\ pc = "done" /\ Cancels = 0 /\ SubEvents = 0
    /\ SliceLen(ctx.ctx.cons) = 3
    /\ Len(log) = 7

\* The step the running call is about to take, and whether it took it by
\* invoking a handler.
StepPending == pc = "running" /\ ~AtEnd(Running)
StepVisited ==
    /\ Len(log') = Len(log) + 1
    /\ log'[Len(log')].event = Running.w.event
    /\ log'[Len(log')].phase = Item(Running).phase
    /\ log'[Len(log')].at = IF Item(Running).some
                            THEN Running.ctx.cons.lo + Item(Running).idx
                            ELSE Running.ctx.current
StepSkipped == log' = log

FallCancelled(e) ==
    \E i \in Indices : log[i].event = e /\ log[i].phase = Falling /\ ClearsFall(i)

C2_NoLaterFall ==
    \A i, j \in Indices :
        (/\ log[i].event = log[j].event
         /\ log[i].phase = Falling /\ ClearsFall(i)
         /\ log[j].phase = Falling) => log[j].at <= log[i].at

C2_ActRiseStillTried ==
    (StepPending /\ FallCancelled(Running.w.event)) =>
        /\ (Item(Running).phase = Acting /\ Running.w.can_eval) => StepVisited
        /\ (Item(Running).phase = Rising /\ Running.w.can_rise) => StepVisited
        /\ Item(Running).phase = Falling => StepSkipped

\* C2: once a handler clears can_fall in the Falling pass at index k, no
\* ancestor of index > k is visited in the Falling pass of that dispatch,
\* and the Acting step and the Rising steps are still taken when can_eval,
\* can_rise allow them.
C2_MonotoneFallCancel == []C2_NoLaterFall /\ [][C2_ActRiseStillTried]_vars

C2_Witness ==
    /\ pc = "done"
    /\ \E i \in Indices :
          /\ log[i].event = 0 /\ log[i].phase = Falling /\ log[i].act = "stop_falling"
          /\ log[i].at + 1 < ctx.ctx.cons.hi
          /\ \E j \in Indices : j > i /\ log[j].event = 0 /\ log[j].phase = Acting
          /\ \E j \in Indices : j > i /\ log[j].event = 0 /\ log[j].phase = Rising

C3_StepGate ==
    StepPending =>
        /\ Item(Running).phase = Acting =>
              IF Running.w.can_eval THEN StepVisited ELSE StepSkipped
        /\ Item(Running).phase = Rising =>
              IF Running.w.can_rise THEN StepVisited ELSE StepSkipped
        /\ Item(Running).phase = Falling =>
              IF Running.w.can_fall THEN StepVisited ELSE StepSkipped

C3_NoLaterRise ==
    \A i, j \in Indices :
        (/\ log[i].event = log[j].event
         /\ log[i].phase = Rising /\ ClearsRise(i)
         /\ log[j].phase = Rising) => log[j].at >= log[i].at

\* C3: a step is taken iff the flag of its own phase is set when the step is
\* reached: Acting iff can_eval, Rising iff can_rise (no ancestor below the
\* index at which can_rise was cleared is visited), Falling iff can_fall,
\* whatever the other two flags are.
C3_OwnFlagOnly == []C3_NoLaterRise /\ [][C3_StepGate]_vars

C3_Witness ==
    /\ pc = "done"
    /\ \E i \in Indices :
          /\ log[i].event = 0 /\ log[i].phase = Falling /\ log[i].act = "prevent_action"
          /\ \E j \in Indices : j > i /\ log[j].event = 0 /\ log[j].phase = Falling
          /\ \A j \in Indices : log[j].phase # Acting
          /\ \E j \in Indices : log[j].event = 0 /\ log[j].phase = Rising

\* C4: a sub-event returned at ancestor position k, and every sub-event it
\* transitively produces, reaches only handlers at positions greater than k:
\* ancestors of the re-dispatch window, or the original target.
C4_SubEventContainment ==
    \A i \in Indices : \A a \in Ancestry(log[i].event) :
        /\ log[i].at > events[a].at
        /\ \/ log[i].at = ctx.ctx.current
           \/ log[i].at \in (events[a].at + 1)..(ctx.ctx.cons.hi - 1)

C4_Witness ==
    /\ pc = "done"
    /\ \E i \in Indices :
          /\ log[i].event # 0
          /\ events[log[i].event].parent # 0
          /\ log[i].at # ctx.ctx.current

\* C5 (as claimed): every sub-event returned at an ancestor index idx,
\* idx = n-1 included, is re-dispatched into the window idx+1..n-1 with the
\* target kept as current.
C5_EverySubEventRedispatched ==
    \A i \in Indices :
        (log[i].sub /\ log[i].phase # Acting) =>
            \E e \in EventIds :
                /\ events[e].src = i
                /\ events[e].ctx.cons = [lo |-> log[i].at + 1,
                                         hi |-> CtxOf(log[i].event).cons.hi]
                /\ events[e].ctx.current = CtxOf(log[i].event).current

\* C6: every handler invocation of a sub-event's dispatch (nested ones
\* included) comes after the invocation that returned the sub-event and
\* before the producing dispatch invokes its next handler.
C6_DepthFirst ==
    \A x \in Indices : \A e \in Ancestry(log[x].event) :
        /\ x > events[e].src
        /\ \A y \in (events[e].src + 1)..x : log[y].event # events[e].parent

C6_Witness ==
    /\ pc = "done"
    /\ \E x, y, z \in Indices :
          /\ x < y /\ y < z
          /\ log[x].event # 0 /\ events[log[x].event].parent # 0
          /\ log[y].event = events[log[x].event].parent
          /\ log[z].event = 0

\* C7: a sub-event returned in the Acting step is dropped: no dispatch is
\* started for it, nothing faults, and the next handler invoked is the first
\* Rising step of the same dispatch or a step of a dispatch that waits for it.
C7_ActingSubEventDiscarded ==
    \A i \in Indices :
        (log[i].phase = Acting /\ log[i].sub) =>
            /\ \A e \in EventIds : events[e].src # i
            /\ (i = Len(log)) => pc # "panicked"
            /\ (i < Len(log)) =>
                  IF log[i + 1].event = log[i].event
                  THEN /\ log[i + 1].phase = Rising
                       /\ log[i + 1].at = CtxOf(log[i].event).cons.hi - 1
                  ELSE log[i + 1].event \in Ancestry(log[i].event) \cup {0}

C7_Witness ==
    \E i \in Indices :
        /\ log[i].phase = Acting /\ log[i].sub
        /\ i < Len(log)
        /\ log[i + 1].event = log[i].event

C8_WrapperStep ==
    /\ \A i \in 1..Len(frames) :
          (i <= Len(frames') /\ frames'[i].w.event = frames[i].w.event) =>
              /\ frames'[i].w.can_fall => frames[i].w.can_fall
              /\ frames'[i].w.can_eval => frames[i].w.can_eval
              /\ frames'[i].w.can_rise => frames[i].w.can_rise
              /\ frames'[i].w.phase >= frames[i].w.phase
    /\ (np'.called /\ np'.arg <= np'.before) =>
          (np'.after = np'.before /\ ~np'.ret)

\* C8: on one wrapper a flag that is false stays false and the phase never
\* decreases; next_phase with a phase not above the current one changes
\* nothing and returns false.
C8_WrapperMonotone == [][C8_WrapperStep]_vars

C8_Witness ==
    /\ np.called /\ np.arg < np.before
    /\ \E i \in 1..Len(frames) : ~frames[i].w.can_eval

\* C9 (as claimed): the dispatch of a sub-event starts with all three flags
\* allowed, whatever was cleared on the wrapper of the producing dispatch.
C9_SubEventStartsAllowed ==
    \A e \in EventIds :
        events[e].w.can_fall /\ events[e].w.can_eval /\ events[e].w.can_rise

Disjoint(c) == c.current \notin Positions(c.cons)

\* C10: in every context constructed, by the caller or at any depth of a
\* dispatch, the current entry's position is outside the ancestor slice.
C10_Disjointness ==
    /\ \A c \in made : Disjoint(c)
    /\ ctx.tag = "Some" => Disjoint(ctx.ctx)
    /\ \A i \in 1..Len(frames) : Disjoint(frames[i].ctx)
    /\ \A e \in EventIds : Disjoint(events[e].ctx)

C10_Witness ==
    /\ Len(frames) = 3
    /\ Cardinality(made) = 2
    /\ \E c \in made : SliceLen(c.cons) > 0

\* ---------------------------------------------------------------- claims C11..C20
\* The positions of a slice whose entry registers a component of type C.
Holders(s, C) == {p \in s.lo..(s.hi - 1) : C \in comps[p + 1]}

Greatest(ps) == CHOOSE p \in ps : \A q \in ps : q <= p

\* C11: a lookup through a context returns the current entry's component if
\* the current entry has one of the type, otherwise the component of the
\* ancestor with the greatest index in the ancestor slice that has one,
\* otherwise nothing; a lookup through the backbone returns the component of
\* the stack entry with the greatest index that has one.
C11_ComponentShadowing ==
    /\ found.op = "get_component" =>
         LET c == found.ctx.ctx
             C == found.type
             anc == Holders(c.cons, C)
         IN  IF C \in comps[c.current + 1] THEN found.res = SomeComp(C, c.current)
             ELSE IF anc # {} THEN found.res = SomeComp(C, Greatest(anc))
             ELSE found.res = NoComp
    /\ found.op = "Backbone_get_component" =>
         LET C == found.type
             all == Holders([lo |-> 0, hi |-> Len(nodes)], C)
         IN  IF all # {} THEN found.res = SomeComp(C, Greatest(all))
             ELSE found.res = NoComp

\* A lookup that the current entry cannot answer and two ancestors can.
C11_Witness ==
    /\ found.op = "get_component"
    /\ found.type \notin comps[found.ctx.ctx.current + 1]
    /\ Cardinality(Holders(found.ctx.ctx.cons, found.type)) >= 2
    /\ found.res.some

\* This step is a call to update that finds a thunk in the queue.
UpdateStep == pc = "idle" /\ thunks # <<>> /\ last'.op = "update"

\* The thunks of q from position i on.
From(q, i) == SubSeq(q, i, Len(q))

Abs(n) == IF n < 0 THEN 0 - n ELSE n

C12_Tick ==
    /\ UpdateStep =>
         /\ Len(thunks') \in {Len(thunks) - 1, Len(thunks)}
         /\ From(thunks', Len(thunks') - Len(thunks) + 2) = Tail(thunks)
         /\ Abs(Len(nodes') - Len(nodes)) <= 1
         /\ (IF last'.asked >= 0 THEN 1 ELSE 0) + last'.polled <= 1
    /\ pc = "running" => thunks' = thunks /\ nodes' = nodes

\* C12: an update on a queue that is not empty takes exactly one thunk from
\* the front and puts back at most one, so the queue does not grow; the
\* stack depth changes by at most one; at most one construction request is
\* started or polled.
C12_OneThunkPerTick == [][C12_Tick]_vars

\* ToRoot was taken from the front and ToParent put back in its place.
C12_Witness ==
    /\ last.op = "update"
    /\ last.kind = "ToRoot"
    /\ thunks # <<>>
    /\ Head(thunks).k = "ToParent"

\* The queue holds the thunks in the order navigate enqueued them.
QueueInOrder ==
    \A i, j \in 1..Len(thunks) : i < j => thunks[i].id < thunks[j].id

\* An update works on the thunk enqueued first of those in the queue; what
\* it puts back stands for that thunk and is at the front again.
C13_Step ==
    UpdateStep =>
        /\ \A i \in 1..Len(thunks) : Head(thunks).id <= thunks[i].id
        /\ Len(thunks') = Len(thunks) =>
              /\ thunks'[1].id = Head(thunks).id
              /\ Tail(thunks') = Tail(thunks)
        /\ Len(thunks') < Len(thunks) => thunks' = Tail(thunks)

\* C13: thunks are processed in the order navigate enqueued them, across
\* navigate calls too, and a step that is not finished in one tick goes back
\* to the front, so that no thunk queued later is processed before it.
C13_Fifo == []QueueInOrder /\ [][C13_Step]_vars

\* An unresolved Waiting was polled and put back while the thunks of two
\* navigate calls are queued behind it.
C13_Witness ==
    /\ last.op = "update"
    /\ last.kind = "Waiting"
    /\ thunks # <<>>
    /\ Head(thunks).k = "Waiting"
    /\ Cardinality({i \in 1..Len(thunks) : thunks[i].k = "End"}) = 2

RootStays == Len(nodes) >= 1 /\ nodes[1] = RootName

\* No step removes or replaces the first entry; ToParent at depth 1 only
\* leaves the queue.
C14_Step ==
    /\ Len(nodes') >= 1
    /\ nodes'[1] = nodes[1]
    /\ UpdateStep /\ Head(thunks).k = "ToParent" /\ Len(nodes) = 1 =>
          nodes' = nodes /\ thunks' = Tail(thunks)

\* C14: the stack always has at least one entry and its first entry is the
\* root made at construction; a ToParent processed at depth 1 is dropped and
\* leaves the stack as it is.
C14_RootNeverPopped == []RootStays /\ [][C14_Step]_vars

\* navigate("..") at the root, and the update that processed its ToParent.
C14_Witness ==
    /\ last.op = "update"
    /\ last.kind = "ToParent"
    /\ serial = 2
    /\ nodes = <<RootName>>

\* The last update finished the step of the thunk it took: nothing that
\* stands for that thunk is in the queue any more.
StepFinished ==
    /\ last.op = "update"
    /\ last.id > 0
    /\ \A i \in 1..Len(thunks) : thunks[i].id # last.id

\* C15: once the step of a ToRoot is finished (the ToRoot and the ToParent
\* steps put back for it), and so before the thunk queued after it is
\* processed, the stack depth is exactly 1.
C15_ToRootReachesRoot ==
    StepFinished /\ last.was = "ToRoot" => Len(nodes) = 1

\* C16: once update has returned the cause of an Error thunk, and until the
\* caller calls navigate again, no update changes the stack, asks a handler
\* for a child or dispatches the completion event.
C16_ErrorIsFatal ==
    last.op = "update" /\ last.fatal =>
        /\ last.moved = 0
        /\ last.asked = -1
        /\ last.kind # "End"

\* This step is an update that takes a thunk of kind k from the front.
Takes(k) == UpdateStep /\ Head(thunks).k = k

C17_Poll ==
    Takes("Waiting") =>
        LET t == Head(thunks)
        IN  /\ t.rx \in {"pending", "node", "error", "canceled"}
            /\ t.rx = "pending" => thunks' = thunks /\ nodes' = nodes
            /\ t.rx = "node" => nodes' = Append(nodes, t.node) /\ thunks' = Tail(thunks)
            /\ t.rx = "error" =>
                  /\ nodes' = nodes
                  /\ Len(thunks') = Len(thunks) /\ Tail(thunks') = Tail(thunks)
                  /\ thunks'[1].k = "Error" /\ thunks'[1].cause = "failed"
            /\ t.rx = "canceled" =>
                  /\ nodes' = nodes
                  /\ Len(thunks') = Len(thunks) /\ Tail(thunks') = Tail(thunks)
                  /\ thunks'[1].k = "Error" /\ thunks'[1].cause = "canceled"
            /\ last'.ret = "Ok"
            /\ pc' = "idle"

\* C17: polling a Waiting thunk has four outcomes.  Not resolved: the same
\* Waiting is at the front again, stack unchanged.  A node: it is pushed as
\* the last entry, nothing is put back.  An error: an Error carrying it is at
\* the front, stack unchanged.  Producer gone: an Error is at the front,
\* stack unchanged.  In each case this update returns success, at once.
C17_WaitingPoll == [][C17_Poll]_vars

\* The producer went away and the poll put an Error at the front.
C17_Witness ==
    /\ last.op = "update"
    /\ last.kind = "Waiting"
    /\ last.ret = "Ok"
    /\ thunks # <<>>
    /\ Head(thunks).k = "Error"
    /\ Head(thunks).cause = "canceled"

C18_Ask ==
    /\ Takes("ToNode") =>
          LET t == Head(thunks)
              back == thunks'[1]
          IN  /\ nodes' = nodes
              /\ last'.asked = Len(nodes) - 1
              /\ last'.ret = "Ok"
              /\ Len(thunks') = Len(thunks) /\ Tail(thunks') = Tail(thunks)
              /\ \/ /\ back.k = "Waiting"
                    /\ back.rx = "pending"
                    /\ back.name = get_child_name(nodes[Len(nodes)], t.name)
                 \/ /\ back.k = "Error"
                    /\ back.cause = "refused"
    /\ Takes("Error") =>
          /\ last'.ret = "Err"
          /\ last'.cause = Head(thunks).cause

\* C18: processing ToNode asks the handler of the last stack entry, and no
\* other, for the child and leaves the stack alone in that tick.  If the
\* handler accepts, a Waiting with the pending request is at the front; if
\* it refuses, an Error with the refusal is at the front, this update
\* returns success and the update that takes the Error returns the refusal.
C18_ToNode == [][C18_Ask]_vars

\* A handler below the root refused; the next update returned the refusal.
C18_Witness ==
    /\ last.op = "update"
    /\ last.kind = "Error"
    /\ last.ret = "Err"
    /\ last.cause = "refused"
    /\ Len(nodes) >= 2

\* The context of the last stack entry with all earlier entries as ancestors.
TargetContext ==
    [name |-> nodes[Len(nodes)], cons |-> [lo |-> 0, hi |-> Len(nodes) - 1],
     current |-> Len(nodes) - 1]

C19_Dispatch ==
    /\ Takes("End") =>
          /\ frames' = process_event(TargetContext)
          /\ log' = <<>>
          /\ thunks' = Tail(thunks)
          /\ nodes' = nodes
    /\ frames = <<>> /\ frames' # <<>> => Takes("End")
    /\ pc = "running" =>
          /\ thunks' = thunks /\ nodes' = nodes
          /\ Len(frames') <= 1
          /\ \A i \in 1..Len(log') : log'[i].event = 0

\* What the handlers have seen of the completion event when End's update
\* returns: capture, act and bubble over the whole stack.
C19_Delivered ==
    last.op = "update" /\ last.kind = "End" /\ last.ret = "Ok" =>
        /\ ctx.ctx = TargetContext
        /\ Visits = ExpectedOrder(TargetContext)

\* C19: processing End dispatches one completion event through capture, act
\* and bubble with the last stack entry as target and all earlier entries as
\* ancestors, puts nothing back and leaves the stack alone; no other step
\* dispatches an event.
C19_End == []C19_Delivered /\ [][C19_Dispatch]_vars

\* The completion event went through a stack of three entries.
C19_Witness ==
    /\ last.op = "update" /\ last.kind = "End" /\ last.ret = "Ok"
    /\ Len(nodes) = 3
    /\ Len(log) = 5

\* "/child/grand"
ChildGrand == <<"/">> \o Child \o <<"/">> \o Grand

\* C20: from the root, after navigate("/child/grand") and the updates in
\* which both constructions succeed, when End has been processed the stack
\* is root, child, grand and path_as_string() is "/child/grand".
C20_EndToEnd ==
    (/\ navs = 1 /\ serial = 4
     /\ last.op = "update" /\ last.kind = "End" /\ last.ret = "Ok"
     /\ Len(nodes) = 3)
    => /\ nodes[1] = RootName
       /\ last_segment(nodes[2]) = Child
       /\ last_segment(nodes[3]) = Grand
       /\ path_as_string(nodes) = ChildGrand

\* ---------------------------------------------------------------- claims C21..C30
\* A text without the blanks at its two ends.
Blank(s, i) == s[i] = " "
Core(s) ==
    LET solid == {i \in 1..Len(s) : ~Blank(s, i)}
    IN  IF solid = {} THEN <<>>
        ELSE SubSeq(s, CHOOSE i \in solid : \A j \in solid : i <= j,
                       CHOOSE i \in solid : \A j \in solid : j <= i)

\* How many '/' a text starts with, and the text up to its first '/'.
Slashes(s) == Cardinality({i \in 1..Len(s) : \A j \in 1..i : s[j] = "/"})
Segment(s) ==
    Cardinality({i \in 1..Len(s) : \A j \in 1..i : s[j] # "/"})

Kinds(q) == [i \in 1..Len(q) |-> q[i].k]

\* One pass of the loop appends the thunk the rule gives for the start of the
\* remaining text, and the remaining text gets shorter; the loop ends on an
\* empty text with one End.
C21_Step ==
    LET p == Core(subpath)
        t == thunks'[Len(thunks')]
    IN  /\ pc = "parsing" /\ pc' = "parsing" =>
              /\ Len(thunks') = Len(thunks) + 1
              /\ SubSeq(thunks', 1, Len(thunks)) = thunks
              /\ Len(subpath') < Len(subpath)
              /\ p # <<>>
              /\ IF p[1] = "/"
                 THEN t.k = "ToRoot" /\ subpath' = SubSeq(p, Slashes(p) + 1, Len(p))
                 ELSE IF Len(p) >= 2 /\ p[1] = "." /\ p[2] = "."
                 THEN t.k = "ToParent"
                 ELSE IF p[1] = "."
                 THEN t.k = "ToSelf"
                 ELSE t.k = "ToNode" /\ t.name = SubSeq(p, 1, Segment(p))
        /\ pc = "parsing" /\ pc' # "parsing" =>
              /\ p = <<>>
              /\ thunks' = Append(thunks, t)
              /\ t.k = "End"

\* What is queued when navigate has returned.
C21_Parsed ==
    pc = "idle" =>
        /\ thunks = Stamp(push_back(parse_all(last.arg), <<End>>), 0)
        /\ {i \in 1..Len(thunks) : thunks[i].k = "End"} = {Len(thunks)}
        /\ last.arg = Example =>
              /\ Kinds(thunks) = <<"ToRoot", "ToNode", "ToParent", "ToNode",
                                   "ToSelf", "ToNode", "End">>
              /\ thunks[2].name = <<"a">>
              /\ thunks[4].name = <<"b">>
              /\ thunks[6].name = <<"c">>

\* C21: navigate on an accepted path appends, left to right, one thunk per
\* unit by the rule (leading '/': ToRoot, further leading slashes dropped;
\* else leading "..": ToParent; else leading '.': ToSelf; else the segment
\* up to the next '/': ToNode), then exactly one End; "/a/../b/./c" gives
\* ToRoot, ToNode(a), ToParent, ToNode(b), ToSelf, ToNode(c), End; every
\* pass strictly shortens the remaining text.
C21_PathParsing == []C21_Parsed /\ [][C21_Step]_vars

\* navigate("/a/../b/./c") has returned.
C21_Witness ==
    /\ pc = "idle"
    /\ last.arg = Example
    /\ Len(thunks) = 7

\* C22: in what navigate queues for a path, ToRoot is the first thunk or
\* does not occur: slashes between segments, repeated ones too, only
\* separate.
C22_OnlyLeadingSlashIsRoot ==
    \A i \in 2..Len(thunks) : thunks[i].k # "ToRoot"

\* This step is a call of navigate.
NavigateStep == pc = "idle" /\ last'.op = "navigate"

C23_Guard ==
    NavigateStep /\ last'.arg = path_as_string(nodes) =>
        thunks' = thunks /\ nodes' = nodes

\* C23: navigate with the text path_as_string() returns at that moment
\* leaves queue and stack as they are.
C23_IdempotenceGuard == [][C23_Guard]_vars

\* navigate was called with the current path below the root while thunks
\* were queued.
C23_Witness ==
    /\ last.op = "navigate"
    /\ last.arg = path_as_string(nodes)
    /\ Len(nodes) >= 2
    /\ thunks # <<>>

C24_Limit ==
    NavigateStep =>
        /\ nodes' = nodes
        /\ Len(thunks) > 16 => thunks' = thunks
        /\ Len(thunks) <= 16 /\ last'.arg # path_as_string(nodes) =>
              /\ Len(thunks') > Len(thunks)
              /\ SubSeq(thunks', 1, Len(thunks)) = thunks
              /\ Kinds(From(thunks', Len(thunks) + 1))
                   = Kinds(parse_all(last'.arg)) \o <<"End">>

\* C24: navigate called while more than 16 thunks are queued leaves queue and
\* stack as they are; called with 16 or fewer queued and a path other than
\* the current one, it appends its thunks after those already queued.
C24_QueueLimit == [][C24_Limit]_vars

\* navigate was turned away by a queue of more than 16 thunks.
C24_Witness ==
    /\ last.op = "navigate"
    /\ last.kind = "ignored"
    /\ Len(thunks) > 16

\* The last call was the update that took End, and the thunks were queued by
\* one navigate call on an empty queue with no request polled while pending.
EndOfCountedRun == last.op = "update" /\ last.kind = "End" /\ last.n > 0

\* C25 as stated: End is taken by the N-th update after N thunks were queued.
C25_EndAtNthUpdate == EndOfCountedRun => last.ticks = last.n

\* C25, amended: End is taken by the (N + R)-th update, R being the number of
\* updates that took a thunk process_thunks had put back (the Waiting or
\* Error standing for a ToNode, the ToParent standing for a ToRoot); by the
\* N-th exactly when nothing was put back.
C25_EndAfterReinserted == EndOfCountedRun => last.ticks = last.n + last.extra

\* End was taken after thunks had been put back.
C25_Witness ==
    /\ EndOfCountedRun
    /\ last.extra > 1
    /\ last.ticks = last.n + last.extra

\* Backbone::is_idle
is_idle == thunks = <<>>

\* C26: with update called again and again, every request answered or
\* dropped in the end and no navigate call from some point on, a queue that
\* is not empty becomes empty, and the backbone ends up idle for good.
C26_RunsToCompletion == (~is_idle ~> is_idle) /\ <>[]is_idle

\* The backbone is idle after a navigation in which an update returned an
\* error and End was taken all the same.
C26_Witness ==
    /\ is_idle
    /\ pc = "idle"
    /\ last.op = "update"
    /\ last.kind = "End"
    /\ last.fatal

SubcontextOps ==
    {"Backbone_get_subcontext_before", "get_subcontext_before", "get_subcontext_after"}

\* C27 (as claimed): the three constructors that take an index return a
\* context for an index that is a position of the slice and None for every
\* other index, the length of the slice included.
C27_OutOfRangeIsNone ==
    call.op \in SubcontextOps =>
        /\ call.at < call.len => call.res = "Some"
        /\ call.at >= call.len => call.res = "None"

NameIsCurrent(c) == c.name = NameAt(c.current)

\* C28 (as claimed): the name of every context the engine produces is the
\* name of that context's current entry, and the handler of an Acting step
\* is given its own node's name, in sub-event dispatches too.
C28_NameIsCurrent ==
    /\ \A c \in made : NameIsCurrent(c)
    /\ ctx.tag = "Some" => NameIsCurrent(ctx.ctx)
    /\ \A i \in 1..Len(frames) : NameIsCurrent(frames[i].ctx)
    /\ \A i \in Indices : log[i].phase = Acting => log[i].name = NameAt(log[i].at)

\* C29 (as claimed): the phase a handler reads from the wrapper is the phase
\* of the step it is invoked for, in every dispatch.
C29_PhaseIsStep == \A i \in Indices : log[i].seen = log[i].phase

\* Every active re-dispatch runs over fewer ancestors than the dispatch
\* that produced it.
Shrinks ==
    \A i \in 1..(Len(frames) - 1) :
        SliceLen(frames[i + 1].ctx.cons) < SliceLen(frames[i].ctx.cons)

\* The most handler invocations a dispatch over n ancestors can make: one
\* per walker item, and for each of the two visits of the ancestor at idx a
\* re-dispatch over the n - (idx + 1) ancestors below it.
RECURSIVE Invocations(_)
Invocations(n) ==
    LET Below[m \in 0..n] == IF m = 0 THEN 0 ELSE Invocations(m - 1) + Below[m - 1]
    IN  2 * n + 1 + 2 * Below[n]

Finished == pc \in {"done", "panicked"}

\* C30: a dispatch makes finitely many handler invocations and ends, whatever
\* the handlers do, because every sub-event is re-dispatched over strictly
\* fewer ancestors than the dispatch that produced it.
C30_DispatchTerminates ==
    /\ []Shrinks
    /\ [](ctx.tag = "Some" => Len(log) <= Invocations(SliceLen(ctx.ctx.cons)))
    /\ (pc = "running" ~> Finished)

\* A dispatch has returned in which every handler returned a sub-event
\* wherever ancestors were left below it, three dispatches deep.
C30_Witness ==
    /\ pc = "done"
    /\ policy = "while_window"
    /\ Len(log) >= 35
    /\ \E e \in EventIds : events[e].parent # 0
====
